---- MODULE Spec2Model ----
(***************************************************************************)
(* A model of src/main.py, the podcast downloader: the selection parser    *)
(* (parse_range_input), the source resolver (get_audio_enclosure), the     *)
(* acquisition engine (download_episode with convert_to_opus) and the      *)
(* driver loop of main().                                                  *)
(*                                                                         *)
(* Strings are sequences of one-character strings.  A mime type is a       *)
(* sequence of tokens, and Python's `x in mime` is "some token is x".      *)
(* A file is a path [base name, extension] with a content status.          *)
(***************************************************************************)
EXTENDS Integers, Sequences, FiniteSets, TLC

VARIABLES
    \* ---- parse_range_input taken alone (SpecParse)
    user_input,       \* the raw line typed by the user
    total_episodes,   \* len(feed.entries)
    parsed,           \* the pair parse_range_input returned (done = FALSE before the call)
    \* ---- get_audio_enclosure taken alone (SpecResolve)
    entry,            \* the feed entry handed to get_audio_enclosure
    resolved,         \* the pair get_audio_enclosure returned (done = FALSE before the call)
    \* ---- main() and download_episode (Spec)
    feed,             \* feed.entries, fixed for the whole run
    fs,               \* the working directory: path -> content status
    pc,               \* where main() is: prompt, loop, request, stream, transcode, exited
    indices,          \* main's `indices`: the parser's output for this selection
    pos,              \* how many elements of `indices` the for loop has taken
    is_native_opus,   \* download_episode's locals
    download_filename,
    final_filename,
    written,          \* chunks written to download_filename by the current stream
    outcomes,         \* history: how each download_episode call of this selection ended
    calls,            \* history: the indices download_episode was called with, this selection
    netCalled,        \* history: the current call issued requests.get
    transArgs,        \* history: the (input, output) pairs convert_to_opus was given, this call
    fsAtCall,         \* history: fs when the current call started
    fsAtSel,          \* history: fs when the current selection started
    okSel             \* history: the previous selection, if each of its calls ended in Success

parseVars == <<user_input, total_episodes, parsed>>
resolveVars == <<entry, resolved>>
mainVars == <<feed, fs, pc, indices, pos, is_native_opus, download_filename,
              final_filename, written, outcomes, calls, netCalled, transArgs,
              fsAtCall, fsAtSel, okSel>>
vars == <<parseVars, resolveVars, mainVars>>

(***************************************************************************)
(* Bounds.                                                                 *)
(***************************************************************************)
MaxLen == 4          \* longest selection expression tried against the parser
MaxTotal == 3        \* largest episode count tried against the parser
MaxEnclosures == 3   \* longest enclosure list tried against the resolver
NumEpisodes == 2     \* episodes of the feed main() works on
MaxChunks == 2       \* chunks of a response body that are told apart

None == "None"

(***************************************************************************)
(* Python strings.                                                         *)
(***************************************************************************)
Digits == {"0", "1", "2"}
Alphabet == Digits \cup {"a", "l", "f", "F", "-", "+", "x", " "}

RECURSIVE StringsUpTo(_)
StringsUpTo(n) ==
    IF n = 0 THEN {<<>>}
    ELSE LET shorter == StringsUpTo(n - 1)
         IN shorter \cup {Append(s, c) : s \in {t \in shorter : Len(t) = n - 1}, c \in Alphabet}

Min(a, b) == IF a <= b THEN a ELSE b
Max(a, b) == IF a >= b THEN a ELSE b

\* str.strip(): whitespace is dropped from both ends.
RECURSIVE LStrip(_)
LStrip(s) == IF s # <<>> /\ Head(s) = " " THEN LStrip(Tail(s)) ELSE s
RECURSIVE RStrip(_)
RStrip(s) ==
    IF s # <<>> /\ s[Len(s)] = " " THEN RStrip(SubSeq(s, 1, Len(s) - 1)) ELSE s
strip(s) == RStrip(LStrip(s))

\* str.lower()
LowerChar(c) ==
    CASE c = "F" -> "f"
      [] c = "Q" -> "q"
      [] OTHER -> c
lower(s) == [i \in 1..Len(s) |-> LowerChar(s[i])]

\* str.replace(' ', '')
RECURSIVE replace_spaces(_)
replace_spaces(s) ==
    IF s = <<>> THEN <<>>
    ELSE IF Head(s) = " " THEN replace_spaces(Tail(s))
    ELSE <<Head(s)>> \o replace_spaces(Tail(s))

\* str.startswith(c) for a one-character c
startswith(s, c) == s # <<>> /\ Head(s) = c

\* str.split(sep) for a one-character sep: the pieces between the separators
RECURSIVE split(_, _)
split(s, sep) ==
    IF \A i \in 1..Len(s) : s[i] # sep THEN <<s>>
    ELSE LET i == CHOOSE k \in 1..Len(s) : s[k] = sep /\ \A j \in 1..(k - 1) : s[j] # sep
         IN <<SubSeq(s, 1, i - 1)>> \o split(SubSeq(s, i + 1, Len(s)), sep)

DigitValue(c) ==
    CASE c = "0" -> 0
      [] c = "1" -> 1
      [] c = "2" -> 2

RECURSIVE DigitsValue(_)
DigitsValue(s) ==
    IF s = <<>> THEN 0
    ELSE 10 * DigitsValue(SubSeq(s, 1, Len(s) - 1)) + DigitValue(s[Len(s)])

AllDigits(s) == s # <<>> /\ \A i \in 1..Len(s) : s[i] \in Digits

\* int(s): an optional sign and then decimal digits; anything else raises
\* ValueError, which is ok = FALSE here.
int(s) ==
    LET signed == s # <<>> /\ Head(s) \in {"+", "-"}
        body == IF signed THEN Tail(s) ELSE s
    IN IF AllDigits(body)
       THEN [ok |-> TRUE,
             val |-> IF signed /\ Head(s) = "-" THEN 0 - DigitsValue(body)
                     ELSE DigitsValue(body)]
       ELSE [ok |-> FALSE, val |-> 0]

\* re.search(c + r'(\d+)', s): the leftmost place where c is followed by a digit;
\* group(1) is the longest run of digits there; found = FALSE is the None result.
RECURSIVE DigitRun(_)
DigitRun(s) ==
    IF s # <<>> /\ Head(s) \in Digits THEN <<Head(s)>> \o DigitRun(Tail(s)) ELSE <<>>
re_search(c, s) ==
    LET places == {i \in 1..(Len(s) - 1) : s[i] = c /\ s[i + 1] \in Digits}
    IN IF places = {} THEN [found |-> FALSE, group |-> <<>>]
       ELSE LET i == CHOOSE k \in places : \A j \in places : k <= j
            IN [found |-> TRUE, group |-> DigitRun(SubSeq(s, i + 1, Len(s)))]

\* list(range(a, b))
range(a, b) == IF b > a THEN [i \in 1..(b - a) |-> a + i - 1] ELSE <<>>

(***************************************************************************)
(* parse_range_input                                                       *)
(***************************************************************************)
InvalidSelection == [indices |-> <<>>, error |-> "Invalid selection format."]
Selected(ixs) == [indices |-> ixs, error |-> None]

normalize(s) == replace_spaces(lower(strip(s)))

parse_first(u, total) ==
    LET match == re_search("f", u)
    IN IF match.found
       THEN Selected(range(0, Min(int(match.group).val, total)))
       ELSE InvalidSelection

\* Mutant: the start of the range is not clamped at 0.
parse_last_unclamped(u, total) ==
    LET match == re_search("l", u)
    IN IF match.found
       THEN LET n == int(match.group).val
            IN Selected(range(total - n, total))
       ELSE InvalidSelection

parse_last(u, total) ==
    LET match == re_search("l", u)
    IN IF match.found
       THEN LET n == int(match.group).val
            IN Selected(range(Max(0, total - n), total))
       ELSE InvalidSelection

parse_span(u, total) ==
    LET parts == split(u, "-")
    IN IF Len(parts) = 2 /\ int(parts[1]).ok /\ int(parts[2]).ok
       THEN LET start == int(parts[1]).val
                end == int(parts[2]).val
            IN IF 1 <= start /\ start <= end /\ end <= total
               THEN Selected(range(start - 1, end))
               ELSE InvalidSelection
       ELSE InvalidSelection

parse_single(u, total) ==
    IF int(u).ok
    THEN LET idx == int(u).val
         IN IF 1 <= idx /\ idx <= total THEN Selected(<<idx - 1>>) ELSE InvalidSelection
    ELSE InvalidSelection

parse_range_input(raw, total) ==
    LET u == normalize(raw)
    IN IF u = <<"a", "l", "l">> THEN Selected(range(0, total))
       ELSE IF startswith(u, "f") THEN parse_first(u, total)
       ELSE IF startswith(u, "l") THEN parse_last(u, total)
       ELSE IF \E i \in 1..Len(u) : u[i] = "-" THEN parse_span(u, total)
       ELSE parse_single(u, total)

(***************************************************************************)
(* get_audio_enclosure                                                     *)
(*                                                                         *)
(* An enclosure is [href, type]: href is None when the enclosure has no    *)
(* href, and type is <<>> when it has no type (enclosure.get('type', '')). *)
(***************************************************************************)
OggOpus == <<"audio/", "ogg", ";codecs=", "opus">>
AppOgg == <<"application/", "ogg">>
Mpeg == <<"audio/", "mpeg">>
Mp3 == <<"audio/", "mp3">>
Mp4 == <<"video/", "mp4">>
Mimes == {OggOpus, AppOgg, Mpeg, Mp3, Mp4, <<>>}
Hrefs == {"u1", "u2", None}
Enclosures == [href : Hrefs, type : Mimes]

RECURSIVE ListsUpTo(_, _)
ListsUpTo(S, n) ==
    IF n = 0 THEN {<<>>}
    ELSE LET shorter == ListsUpTo(S, n - 1)
         IN shorter \cup {Append(l, x) : l \in {t \in shorter : Len(t) = n - 1}, x \in S}

\* Python's `word in mime`
contains(mime, word) == \E i \in 1..Len(mime) : mime[i] = word

NoSource == [url |-> None, is_opus |-> FALSE]

\* One `for enclosure in entry.enclosures` loop: the href of the first enclosure
\* whose mime holds one of the words.
RECURSIVE first_enclosure(_, _)
first_enclosure(encs, words) ==
    IF encs = <<>> THEN [found |-> FALSE, href |-> None]
    ELSE IF \E w \in words : contains(Head(encs).type, w)
         THEN [found |-> TRUE, href |-> Head(encs).href]
         ELSE first_enclosure(Tail(encs), words)

\* Mutant: a single loop that takes the first enclosure of either family.
RECURSIVE one_pass(_)
one_pass(encs) ==
    IF encs = <<>> THEN NoSource
    ELSE IF \E w \in {"opus", "ogg"} : contains(Head(encs).type, w)
         THEN [url |-> Head(encs).href, is_opus |-> TRUE]
    ELSE IF \E w \in {"mpeg", "mp3"} : contains(Head(encs).type, w)
         THEN [url |-> Head(encs).href, is_opus |-> FALSE]
    ELSE one_pass(Tail(encs))
get_audio_enclosure_one_pass(e) ==
    IF ~e.has_enclosures THEN NoSource ELSE one_pass(e.enclosures)

get_audio_enclosure(e) ==
    IF ~e.has_enclosures THEN NoSource
    ELSE LET native == first_enclosure(e.enclosures, {"opus", "ogg"})
             fallback == first_enclosure(e.enclosures, {"mpeg", "mp3"})
         IN IF native.found THEN [url |-> native.href, is_opus |-> TRUE]
            ELSE IF fallback.found THEN [url |-> fallback.href, is_opus |-> FALSE]
            ELSE NoSource

(***************************************************************************)
(* sanitize_filename                                                       *)
(***************************************************************************)
MaxNameLen == 200
IllegalChars == {"\\", "/", "*", "?", ":", "\"", "<", ">", "|"}
Separators == {" ", "-"}

RECURSIVE remove_illegal(_)
remove_illegal(s) ==
    IF s = <<>> THEN <<>>
    ELSE IF Head(s) \in IllegalChars THEN remove_illegal(Tail(s))
    ELSE <<Head(s)>> \o remove_illegal(Tail(s))

RECURSIVE drop_separators(_)
drop_separators(s) ==
    IF s # <<>> /\ Head(s) \in Separators THEN drop_separators(Tail(s)) ELSE s

RECURSIVE collapse(_)
collapse(s) ==
    IF s = <<>> THEN <<>>
    ELSE IF Head(s) \in Separators THEN <<"_">> \o collapse(drop_separators(s))
    ELSE <<Head(s)>> \o collapse(Tail(s))

RECURSIVE strip_underscores(_)
strip_underscores(s) ==
    IF s # <<>> /\ Head(s) = "_" THEN strip_underscores(Tail(s))
    ELSE IF s # <<>> /\ s[Len(s)] = "_" THEN strip_underscores(SubSeq(s, 1, Len(s) - 1))
    ELSE s

sanitize_filename(title) ==
    LET sanitized == strip_underscores(collapse(remove_illegal(title)))
    IN SubSeq(sanitized, 1, Min(Len(sanitized), MaxNameLen))

(***************************************************************************)
(* The working directory.  A file's status is absent, old (there before    *)
(* the first run), partial (opened for writing, the body not yet whole) or *)
(* complete.                                                               *)
(***************************************************************************)
OpusPath(base) == [base |-> base, ext |-> ".opus"]
TmpPath(base) == [base |-> base, ext |-> ".tmp.mp3"]
NoPath == [base |-> <<>>, ext |-> ""]

exists(f, path) == f[path] # "absent"
remove(f, path) == [f EXCEPT ![path] = "absent"]
write(f, path, status) == [f EXCEPT ![path] = status]

(***************************************************************************)
(* The feed main() works on, and what the user may type at the prompt.     *)
(***************************************************************************)
Enc(href, type) == [href |-> href, type |-> type]
Entry(title, encs) == [title |-> title, has_enclosures |-> TRUE, enclosures |-> encs]

EntryPool ==
    { Entry(<<"a", " ", "b">>, <<Enc("u1", Mpeg), Enc("u2", OggOpus)>>),
      Entry(<<"a", "-", "b", "?">>, <<Enc("u1", Mpeg)>>),
      Entry(<<"c">>, <<Enc("u1", Mp3)>>),
      Entry(<<"c">>, <<Enc("u1", Mp4)>>) }

BaseNames == {sanitize_filename(e.title) : e \in EntryPool}
AllPaths == {OpusPath(b) : b \in BaseNames} \cup {TmpPath(b) : b \in BaseNames}

Choices ==
    { <<"a", "l", "l">>, <<"F", "1">>, <<"l", "1">>, <<"2">>, <<"1", "-", "2">>,
      <<"f", "0">>, <<" ", "Q">>, <<"x">> }

\* What one run of the ffmpeg process can do: its exit, and what it left at the
\* output path ("none": the path was not touched).  A run that exits 0 wrote the
\* whole output; a run that could not be started wrote nothing.
FfmpegRuns ==
    { [exit |-> "0", out |-> "complete"],
      [exit |-> "notfound", out |-> "none"],
      [exit |-> "nonzero", out |-> "none"],
      [exit |-> "nonzero", out |-> "partial"],
      [exit |-> "interrupted", out |-> "none"],
      [exit |-> "interrupted", out |-> "partial"] }

TransportErrors == {"RequestException", "KeyboardInterrupt"}

(***************************************************************************)
(* convert_to_opus: subprocess.run(ffmpeg ..., check=True) and the two     *)
(* exceptions the function catches.  Any other exception leaves it.        *)
(***************************************************************************)
convert_to_opus(f, input_path, output_path, run) ==
    LET after == IF run.out = "none" THEN f ELSE write(f, output_path, run.out)
    IN CASE run.exit = "0" -> [raised |-> None, success |-> TRUE, fs |-> after]
         [] run.exit = "notfound" -> [raised |-> None, success |-> FALSE, fs |-> after]
         [] run.exit = "nonzero" -> [raised |-> None, success |-> FALSE, fs |-> after]
         [] OTHER -> [raised |-> "KeyboardInterrupt", success |-> FALSE, fs |-> after]

(***************************************************************************)
(* download_episode's try block                                            *)
(***************************************************************************)
\* Mutant: no except clause around the download.
Caught_nothing(exc) == FALSE

\* `except Exception`: KeyboardInterrupt is not an Exception.
Caught(exc) == exc # "KeyboardInterrupt"

\* The body of the except clause.
ExceptHandler(f) ==
    IF ~is_native_opus /\ exists(f, download_filename)
    THEN remove(f, download_filename)
    ELSE f

\* The clean-up after convert_to_opus returned.
RemoveTemp(f) ==
    IF exists(f, download_filename) THEN remove(f, download_filename) ELSE f

\* Mutant: every download is handed to ffmpeg.
NeedsTranscode_always(native) == TRUE

\* `if not is_native_opus:` after the stream
NeedsTranscode(native) == ~native

\* Mutant: the existence check is missing.
AlreadyDownloaded_never(f, final) == FALSE

\* `if os.path.exists(final_filename): return`
AlreadyDownloaded(f, final) == exists(f, final)

\* download_episode returns to main's for loop with outcome o.
Return(o, f) ==
    /\ fs' = f
    /\ outcomes' = Append(outcomes, o)
    /\ pc' = "loop"

\* exc is raised inside the try block, the directory being f.  A caught exception
\* ends the call; any other reaches main, whose for loop catches
\* KeyboardInterrupt alone and calls sys.exit(0).
Raise(exc, f) ==
    IF Caught(exc)
    THEN Return("FailedTransport", ExceptHandler(f))
    ELSE /\ fs' = f
         /\ outcomes' = Append(outcomes, IF exc = "KeyboardInterrupt" THEN "Cancelled" ELSE "Crashed")
         /\ pc' = IF exc = "KeyboardInterrupt" THEN "exited" ELSE "crashed"

(***************************************************************************)
(* main() and download_episode, step by step                               *)
(***************************************************************************)
NotParsing == UNCHANGED <<parseVars, resolveVars>>

Init ==
    /\ user_input = <<>> /\ total_episodes = 0
    /\ parsed = [done |-> FALSE, result |-> InvalidSelection]
    /\ entry = [has_enclosures |-> FALSE, enclosures |-> <<>>]
    /\ resolved = [done |-> FALSE, result |-> NoSource]
    /\ feed \in [1..NumEpisodes -> EntryPool]
    /\ fs \in {f \in [AllPaths -> {"absent", "old"}] : \A b \in BaseNames : f[TmpPath(b)] = "absent"}
    /\ pc = "prompt"
    /\ indices = <<>> /\ pos = 0
    /\ is_native_opus = FALSE /\ download_filename = NoPath /\ final_filename = NoPath
    /\ written = 0
    /\ outcomes = <<>> /\ calls = <<>>
    /\ netCalled = FALSE /\ transArgs = <<>>
    /\ fsAtCall = fs /\ fsAtSel = fs
    /\ okSel = <<>>

\* One turn of `while True`: read a line; q leaves; a parse error prints and asks
\* again; otherwise the for loop starts.
Prompt(line) ==
    /\ pc = "prompt"
    /\ LET choice == lower(strip(line))
           r == parse_range_input(choice, Len(feed))
       IN IF choice = <<"q">>
          THEN /\ pc' = "exited"
               /\ UNCHANGED <<indices, pos, outcomes, calls, fsAtSel>>
          ELSE /\ pc' = IF r.error # None THEN "prompt" ELSE "loop"
               /\ indices' = r.indices
               /\ pos' = 0
               /\ outcomes' = <<>>
               /\ calls' = <<>>
               /\ fsAtSel' = fs
    /\ UNCHANGED <<feed, fs, is_native_opus, download_filename, final_filename, written,
                   netCalled, transArgs, fsAtCall, okSel>>
    /\ NotParsing

\* `for index in indices:` takes the next index and calls download_episode, which
\* runs up to requests.get, or returns before it.
LoopNext ==
    /\ pc = "loop" /\ pos < Len(indices)
    /\ LET index == indices[pos + 1]
           e == feed[index + 1]
           src == get_audio_enclosure(e)
           base_name == sanitize_filename(e.title)
           final == OpusPath(base_name)
       IN /\ pos' = pos + 1
          /\ calls' = Append(calls, index)
          /\ fsAtCall' = fs
          /\ transArgs' = <<>>
          /\ written' = 0
          /\ IF src.url = None
             THEN /\ Return("SkippedNoUrl", fs)
                  /\ netCalled' = FALSE
                  /\ UNCHANGED <<is_native_opus, download_filename, final_filename>>
             ELSE /\ is_native_opus' = src.is_opus
                  /\ final_filename' = final
                  /\ IF AlreadyDownloaded(fs, final)
                     THEN /\ Return("SkippedExists", fs)
                          /\ netCalled' = FALSE
                          /\ UNCHANGED download_filename
                     ELSE /\ download_filename' = IF src.is_opus THEN final ELSE TmpPath(base_name)
                          /\ netCalled' = TRUE
                          /\ pc' = "request"
                          /\ UNCHANGED <<fs, outcomes>>
    /\ UNCHANGED <<feed, indices, fsAtSel, okSel>>
    /\ NotParsing

\* The for loop is exhausted: "--- Process finished ---", back to the prompt.
LoopEnd ==
    /\ pc = "loop" /\ pos = Len(indices)
    /\ pc' = "prompt"
    /\ okSel' = IF indices # <<>> /\ \A i \in 1..Len(outcomes) : outcomes[i] = "Success"
                THEN indices ELSE <<>>
    /\ UNCHANGED <<feed, fs, indices, pos, is_native_opus, download_filename, final_filename,
                   written, outcomes, calls, netCalled, transArgs, fsAtCall, fsAtSel>>
    /\ NotParsing

CallFrame == <<feed, indices, pos, is_native_opus, download_filename, final_filename,
               calls, netCalled, fsAtCall, fsAtSel, okSel>>

\* requests.get answered 2xx; open(download_filename, 'wb') creates the file empty.
RequestOk ==
    /\ pc = "request"
    /\ fs' = write(fs, download_filename, "partial")
    /\ pc' = "stream"
    /\ UNCHANGED <<CallFrame, written, outcomes, transArgs>>
    /\ NotParsing

\* requests.get or raise_for_status raised, or the user interrupted the wait.
RequestRaises(exc) ==
    /\ pc = "request"
    /\ Raise(exc, fs)
    /\ UNCHANGED <<CallFrame, written, transArgs>>
    /\ NotParsing

\* One turn of `for data in r.iter_content(8192)`.
WriteChunk ==
    /\ pc = "stream" /\ written < MaxChunks
    /\ written' = written + 1
    /\ UNCHANGED <<CallFrame, fs, pc, outcomes, transArgs>>
    /\ NotParsing

\* The body is exhausted and the file closed.  A native source is done; any other
\* is handed to convert_to_opus, which waits for ffmpeg.
StreamEnd ==
    /\ pc = "stream"
    /\ LET f == write(fs, download_filename, "complete")
       IN IF NeedsTranscode(is_native_opus)
          THEN /\ fs' = f
               /\ transArgs' = Append(transArgs, <<download_filename, final_filename>>)
               /\ pc' = "transcode"
               /\ UNCHANGED outcomes
          ELSE /\ Return("Success", f)
               /\ UNCHANGED transArgs
    /\ UNCHANGED <<CallFrame, written>>
    /\ NotParsing

\* The stream broke, or the user interrupted it; the file is closed as it is.
StreamRaises(exc) ==
    /\ pc = "stream"
    /\ Raise(exc, fs)
    /\ UNCHANGED <<CallFrame, written, transArgs>>
    /\ NotParsing

\* ffmpeg ended (or the wait was interrupted): convert_to_opus returns, the
\* temporary file is removed, success is reported or not.
Transcode(run) ==
    /\ pc = "transcode"
    /\ LET args == transArgs[Len(transArgs)]
           r == convert_to_opus(fs, args[1], args[2], run)
       IN IF r.raised # None
          THEN Raise(r.raised, r.fs)
          ELSE Return(IF r.success THEN "Success" ELSE "FailedTranscode", RemoveTemp(r.fs))
    /\ UNCHANGED <<CallFrame, written, transArgs>>
    /\ NotParsing

\* The program is started again in the same directory, on the same feed.
Restart ==
    /\ pc \in {"exited", "crashed"}
    /\ pc' = "prompt"
    /\ indices' = <<>> /\ pos' = 0
    /\ is_native_opus' = FALSE /\ download_filename' = NoPath /\ final_filename' = NoPath
    /\ written' = 0
    /\ outcomes' = <<>> /\ calls' = <<>>
    /\ netCalled' = FALSE /\ transArgs' = <<>>
    /\ fsAtCall' = fs /\ fsAtSel' = fs
    /\ UNCHANGED <<feed, fs, okSel>>
    /\ NotParsing

Next ==
    \/ \E line \in Choices : Prompt(line)
    \/ LoopNext
    \/ LoopEnd
    \/ RequestOk
    \/ \E exc \in TransportErrors : RequestRaises(exc)
    \/ WriteChunk
    \/ StreamEnd
    \/ \E exc \in TransportErrors : StreamRaises(exc)
    \/ \E run \in FfmpegRuns : Transcode(run)
    \/ Restart

Spec == Init /\ [][Next]_vars

(***************************************************************************)
(* parse_range_input taken alone: every short line against every small     *)
(* episode count.                                                          *)
(***************************************************************************)
MainIdle ==
    /\ feed = <<>>
    /\ fs = [p \in AllPaths |-> "absent"]
    /\ pc = "idle"
    /\ indices = <<>> /\ pos = 0
    /\ is_native_opus = FALSE /\ download_filename = NoPath /\ final_filename = NoPath
    /\ written = 0
    /\ outcomes = <<>> /\ calls = <<>>
    /\ netCalled = FALSE /\ transArgs = <<>>
    /\ fsAtCall = fs /\ fsAtSel = fs
    /\ okSel = <<>>

InitParse ==
    /\ user_input \in StringsUpTo(MaxLen)
    /\ total_episodes \in 0..MaxTotal
    /\ parsed = [done |-> FALSE, result |-> InvalidSelection]
    /\ entry = [has_enclosures |-> FALSE, enclosures |-> <<>>]
    /\ resolved = [done |-> FALSE, result |-> NoSource]
    /\ MainIdle

ParseInput ==
    /\ ~parsed.done
    /\ parsed' = [done |-> TRUE, result |-> parse_range_input(user_input, total_episodes)]
    /\ UNCHANGED <<user_input, total_episodes, resolveVars, mainVars>>

NextParse == ParseInput

SpecParse == InitParse /\ [][NextParse]_vars

(***************************************************************************)
(* get_audio_enclosure taken alone: every short enclosure list.            *)
(***************************************************************************)
InitResolve ==
    /\ user_input = <<>> /\ total_episodes = 0
    /\ parsed = [done |-> FALSE, result |-> InvalidSelection]
    /\ entry \in {[has_enclosures |-> FALSE, enclosures |-> <<>>]}
                 \cup {[has_enclosures |-> TRUE, enclosures |-> l] :
                           l \in ListsUpTo(Enclosures, MaxEnclosures)}
    /\ resolved = [done |-> FALSE, result |-> NoSource]
    /\ MainIdle

Resolve ==
    /\ ~resolved.done
    /\ resolved' = [done |-> TRUE, result |-> get_audio_enclosure(entry)]
    /\ UNCHANGED <<entry, parseVars, mainVars>>

NextResolve == Resolve

SpecResolve == InitResolve /\ [][NextResolve]_vars

(***************************************************************************)
(* The selection grammar as the specification words it, and what each form *)
(* denotes.                                                                *)
(***************************************************************************)
IsAll(u) == u = <<"a", "l", "l">>
IsFirst(u) == Len(u) >= 2 /\ u[1] = "f" /\ AllDigits(Tail(u))
IsLast(u) == Len(u) >= 2 /\ u[1] = "l" /\ AllDigits(Tail(u))
IsSpan(u) ==
    \E k \in 2..(Len(u) - 1) :
        u[k] = "-" /\ AllDigits(SubSeq(u, 1, k - 1)) /\ AllDigits(SubSeq(u, k + 1, Len(u)))
IsSingle(u) == AllDigits(u)
WellFormed(u) == IsAll(u) \/ IsFirst(u) \/ IsLast(u) \/ IsSpan(u) \/ IsSingle(u)

\* The indices lo, lo+1, ..., hi (none when hi < lo)
Interval(lo, hi) == [i \in 1..(hi - lo + 1) |-> lo + i - 1]

Denoted(u, total) ==
    IF IsAll(u) THEN Selected(Interval(0, total - 1))
    ELSE IF IsFirst(u) THEN Selected(Interval(0, Min(DigitsValue(Tail(u)), total) - 1))
    ELSE IF IsLast(u)
         THEN Selected(Interval(total - Min(DigitsValue(Tail(u)), total), total - 1))
    ELSE IF IsSpan(u)
         THEN LET k == CHOOSE j \in 2..(Len(u) - 1) : u[j] = "-"
                  a == DigitsValue(SubSeq(u, 1, k - 1))
                  b == DigitsValue(SubSeq(u, k + 1, Len(u)))
              IN IF 1 <= a /\ a <= b /\ b <= total
                 THEN Selected(Interval(a - 1, b - 1))
                 ELSE InvalidSelection
    ELSE LET n == DigitsValue(u)
         IN IF 1 <= n /\ n <= total THEN Selected(<<n - 1>>) ELSE InvalidSelection

\* C5: a line whose normalized form is none of all, f<digits>, l<digits>,
\* <digits>-<digits>, <digits> is answered with "Invalid selection format." and
\* no index.
C5_MalformedIsError ==
    (parsed.done /\ ~WellFormed(normalize(user_input)))
        => parsed.result = InvalidSelection

\* C6: a well-formed line is answered with exactly the ascending run of indices
\* within [0, total) that its form denotes, or with the error when a span or a
\* single number is out of range.
C6_WellFormedDenotes ==
    (parsed.done /\ WellFormed(normalize(user_input)))
        => /\ parsed.result = Denoted(normalize(user_input), total_episodes)
           /\ \A i \in 1..Len(parsed.result.indices) :
                 /\ 0 <= parsed.result.indices[i]
                 /\ parsed.result.indices[i] < total_episodes
                 /\ i > 1 => parsed.result.indices[i] = parsed.result.indices[i - 1] + 1

\* C6's case: "last N" with N beyond the episode count is clamped to them all.
C6_Witness ==
    /\ parsed.done
    /\ IsLast(normalize(user_input))
    /\ DigitsValue(Tail(normalize(user_input))) > total_episodes
    /\ total_episodes >= 2
    /\ parsed.result = Selected(Interval(0, total_episodes - 1))

(***************************************************************************)
(* The resolver's policy.                                                  *)
(***************************************************************************)
IsTarget(enc) == contains(enc.type, "opus") \/ contains(enc.type, "ogg")
IsFallback(enc) == contains(enc.type, "mpeg") \/ contains(enc.type, "mp3")
Least(S) == CHOOSE k \in S : \A j \in S : k <= j

\* C9: the first opus/ogg enclosure wherever it stands, as target codec; failing
\* that the first mpeg/mp3 enclosure, not target codec; failing that no URL.
C9_ResolverPolicy ==
    resolved.done =>
        LET encs == entry.enclosures
            targets == {i \in 1..Len(encs) : IsTarget(encs[i])}
            fallbacks == {i \in 1..Len(encs) : IsFallback(encs[i])}
        IN IF entry.has_enclosures /\ targets # {}
           THEN resolved.result = [url |-> encs[Least(targets)].href, is_opus |-> TRUE]
           ELSE IF entry.has_enclosures /\ fallbacks # {}
           THEN resolved.result = [url |-> encs[Least(fallbacks)].href, is_opus |-> FALSE]
           ELSE resolved.result = [url |-> None, is_opus |-> FALSE]

\* C9's case: an mpeg enclosure stands before the opus one, and the opus one wins.
C9_Witness ==
    /\ resolved.done
    /\ Len(entry.enclosures) >= 2
    /\ IsFallback(entry.enclosures[1]) /\ ~IsTarget(entry.enclosures[1])
    /\ IsTarget(entry.enclosures[2])
    /\ entry.enclosures[2].href = "u2" /\ entry.enclosures[1].href = "u1"
    /\ resolved.result = [url |-> "u2", is_opus |-> TRUE]

(***************************************************************************)
(* download_episode and main's loop.                                       *)
(***************************************************************************)
\* The latest download_episode call of this selection has ended.
Returned == pos >= 1 /\ Len(outcomes) = pos
LastOutcome == outcomes[pos]
CurEntry == feed[indices[pos] + 1]
CurFinal == OpusPath(sanitize_filename(CurEntry.title))
CurTemp == TmpPath(sanitize_filename(CurEntry.title))
InCall == pc \in {"request", "stream", "transcode"}

\* C1: after a transport failure the file download_episode was writing is gone.
C1_TransportFailureRemovesWorkingFile ==
    (Returned /\ LastOutcome = "FailedTransport") => ~exists(fs, download_filename)

\* C2: after a user interrupt the working file is gone and the loop has stopped.
C2_CancelRemovesWorkingFile ==
    (Returned /\ LastOutcome = "Cancelled")
        => /\ ~exists(fs, download_filename)
           /\ pc = "exited"

\* C3: a call that finds the final file present ends Skipped without a request,
\* without ffmpeg and without touching the directory; and a selection run again
\* after each of its episodes succeeded leaves the directory as it was.
C3_ExistingFinalIsSkipped ==
    /\ (pos >= 1 /\ calls # <<>> /\ exists(fsAtCall, CurFinal))
          => /\ Returned
             /\ LastOutcome \in {"SkippedExists", "SkippedNoUrl"}
             /\ ~netCalled
             /\ transArgs = <<>>
             /\ fs = fsAtCall
    /\ (okSel # <<>> /\ indices = okSel /\ (pc = "loop" \/ InCall))
          => /\ fs = fsAtSel
             /\ pc = "loop"
             /\ \A i \in 1..Len(outcomes) : outcomes[i] = "SkippedExists"

\* C3's case: the second run of a selection whose first run succeeded throughout
\* has skipped every episode.
C3_Witness ==
    /\ pc = "loop" /\ pos = Len(indices) /\ pos >= 2
    /\ indices = okSel
    /\ \A i \in 1..pos : outcomes[i] = "SkippedExists"
    /\ fs = fsAtSel

\* C4: after ffmpeg failed, the temporary file is gone and there is no final file.
C4_TranscodeFailureLeavesNothing ==
    (Returned /\ LastOutcome = "FailedTranscode")
        => /\ ~exists(fs, CurTemp)
           /\ ~exists(fs, CurFinal)

\* C7: ffmpeg is started only for a fallback source, once, after the temporary
\* file was written whole, from the temporary path to the final path; its success
\* leaves the final file and no temporary file; a native source is never
\* transcoded and its successful stream leaves the final file.
C7_TranscodeOnlyAfterFallbackStream ==
    (pos >= 1 /\ calls # <<>>) =>
        /\ Len(transArgs) <= 1
        /\ transArgs # <<>> =>
              /\ ~get_audio_enclosure(CurEntry).is_opus
              /\ transArgs[1] = <<CurTemp, CurFinal>>
        /\ pc = "transcode" => (transArgs # <<>> /\ fs[CurTemp] = "complete")
        /\ (Returned /\ LastOutcome = "Success") =>
              /\ fs[CurFinal] = "complete"
              /\ IF get_audio_enclosure(CurEntry).is_opus
                 THEN transArgs = <<>>
                 ELSE transArgs # <<>> /\ ~exists(fs, CurTemp)

\* C7's case: a fallback source was streamed, transcoded and reported a success.
C7_Witness ==
    /\ Returned /\ LastOutcome = "Success"
    /\ ~is_native_opus
    /\ transArgs = <<<<CurTemp, CurFinal>>>>
    /\ fs[CurFinal] = "complete" /\ fs[CurTemp] = "absent"

\* C8: download_episode is called once per index of the parser's output, in
\* order, one call at a time; whatever the earlier outcomes, only a user
\* interrupt stops the loop early, and the prompt comes back after the last
\* index and not before.
C8_EveryIndexInOrder ==
    /\ Len(calls) = pos
    /\ pos <= Len(indices)
    /\ calls = SubSeq(indices, 1, pos)
    /\ Len(outcomes) = IF InCall THEN pos - 1 ELSE pos
    /\ pc # "crashed"
    /\ pc = "prompt" => calls = indices
    /\ \A i \in 1..Len(outcomes) :
          outcomes[i] = "Cancelled" => (i = Len(outcomes) /\ pc = "exited")
    /\ pc = "exited" =>
          \/ calls = indices
          \/ (outcomes # <<>> /\ outcomes[Len(outcomes)] = "Cancelled")

\* C8's case: the first episode failed and the second was still downloaded.
C8_Witness ==
    /\ pc = "prompt"
    /\ Len(indices) = 2 /\ calls = indices
    /\ outcomes[1] \in {"FailedTransport", "FailedTranscode"}
    /\ outcomes[2] = "Success"

\* C10: a final file is on disk only if it was there from the start or a
\* successful acquisition wrote it, so no episode is skipped as already
\* downloaded because of what a failed attempt left.
C10_FinalFileOnlyBySuccess ==
    /\ pc \in {"loop", "prompt"} =>
          \A b \in BaseNames : fs[OpusPath(b)] \in {"absent", "old", "complete"}
    /\ (Returned /\ LastOutcome = "SkippedExists") => fsAtCall[final_filename] # "partial"

====
